---- MODULE Spec2Model ----
(***************************************************************************)
(* A model of quantized_mesh_tile/terrain.py: the TerrainTile class, its   *)
(* binary writer (_writeTo) and reader (fromBytesIO), and the file entry   *)
(* points around them.                                                     *)
(*                                                                         *)
(* Representation.  A Python list whose length follows the vertex count    *)
(* (u, v, h, vLight, the watermask rows, the bytes of a stream) is held    *)
(* run-length encoded: a sequence of runs [v |-> value, n |-> count], no   *)
(* run empty and no two neighbouring runs of the same value, so that two   *)
(* lists are equal element for element exactly when their encodings are    *)
(* equal.  This is what lets a tile of BYTESPLIT + 1 vertices be a state.  *)
(* The short lists (indices, westI, southI, eastI, northI) are sequences.  *)
(* Python indices are 0-based and are kept 0-based here.                   *)
(*                                                                         *)
(* Scope.  gzipped is always False; Python 3 semantics (/ is true          *)
(* division, round is round-half-even).                                    *)
(***************************************************************************)
EXTENDS Integers, Sequences, FiniteSets, TLC

(***************************************************************************)
(* Run-length encoded lists                                                *)
(***************************************************************************)
Min(a, b) == IF a <= b THEN a ELSE b

RECURSIVE RLen(_)
RLen(l) == IF l = <<>> THEN 0 ELSE l[1].n + RLen(Tail(l))

RRep(x, k) == IF k <= 0 THEN <<>> ELSE <<[n |-> k, v |-> x]>>

\* the concatenation of two lists
RCat(a, b) ==
    IF a = <<>> THEN b
    ELSE IF b = <<>> THEN a
    ELSE IF a[Len(a)].v = b[1].v
         THEN SubSeq(a, 1, Len(a) - 1)
                \o <<[n |-> a[Len(a)].n + b[1].n, v |-> b[1].v]>>
                \o Tail(b)
         ELSE a \o b

\* list.append(x)
RAppend(l, x) == RCat(l, RRep(x, 1))

\* the places of a sequence where a run starts
RunStarts(s) == {i \in 1..Len(s) : i = 1 \/ s[i] # s[i - 1]}

\* the list of the elements of a sequence
RFromSeq(s) ==
    LET starts == RunStarts(s)
        start(k) == CHOOSE i \in starts : Cardinality({j \in starts : j <= i}) = k
    IN  [k \in 1..Cardinality(starts) |->
            [n |-> (IF k = Cardinality(starts) THEN Len(s) + 1 ELSE start(k + 1))
                     - start(k),
             v |-> s[start(k)]]]

\* l[i], 0-based; the caller checks 0 <= i < RLen(l)
RECURSIVE RAt(_, _)
RAt(l, i) == IF i < l[1].n THEN l[1].v ELSE RAt(Tail(l), i - l[1].n)

\* l[k:]
RECURSIVE RDrop(_, _)
RDrop(l, k) ==
    IF k <= 0 \/ l = <<>> THEN l
    ELSE IF k >= l[1].n THEN RDrop(Tail(l), k - l[1].n)
    ELSE <<[n |-> l[1].n - k, v |-> l[1].v]>> \o Tail(l)

\* l[:k]
RECURSIVE RTake(_, _)
RTake(l, k) ==
    IF k <= 0 \/ l = <<>> THEN <<>>
    ELSE IF k >= l[1].n THEN RCat(<<l[1]>>, RTake(Tail(l), k - l[1].n))
    ELSE <<[n |-> k, v |-> l[1].v]>>

\* the first k elements as a plain sequence (k small)
RECURSIVE RTakeSeq(_, _)
RTakeSeq(l, k) ==
    IF k <= 0 \/ l = <<>> THEN <<>>
    ELSE [i \in 1..Min(k, l[1].n) |-> l[1].v] \o RTakeSeq(Tail(l), k - l[1].n)

\* the list k times over
RECURSIVE RTimes(_, _)
RTimes(l, k) ==
    IF k <= 0 \/ l = <<>> THEN <<>>
    ELSE IF Len(l) = 1 THEN <<[n |-> l[1].n * k, v |-> l[1].v]>>
    ELSE RCat(l, RTimes(l, k - 1))

\* len(l) >= k, looking no further into l than k elements
RECURSIVE RHas(_, _)
RHas(l, k) ==
    \/ k <= 0
    \/ l # <<>> /\ (l[1].n >= k \/ RHas(Tail(l), k - l[1].n))


(***************************************************************************)
(* struct: packEntry / unpackEntry (utils.py, little-endian "<" formats)   *)
(***************************************************************************)
OK == "ok"

\* struct.calcsize
calcsize(fmt) ==
    CASE fmt = "B" -> 1
      [] fmt = "H" -> 2
      [] fmt = "I" -> 4
      [] fmt = "f" -> 4
      [] fmt = "d" -> 8

\* the largest value an unsigned format takes, for the formats whose range a
\* model value can leave ("I" holds every non-negative model value)
FitsFormat(fmt, value) ==
    CASE fmt = "B" -> value \in 0..255
      [] fmt = "H" -> value \in 0..65535
      [] OTHER    -> value >= 0

\* the width bytes of a value below 2^31, the least significant first: the
\* bytes past the fourth are 0
LittleEndian(value, width) ==
    [i \in 1..width |-> IF i > 4 THEN 0 ELSE (value \div 256 ^ (i - 1)) % 256]

\* packEntry(type, value): [bytes, err].  A float or double field carries a
\* small non-negative integer here, laid out in its field's width.
packEntry(fmt, value) ==
    IF ~FitsFormat(fmt, value) THEN [bytes |-> <<>>, err |-> "struct.error"]
    ELSE [bytes |-> RFromSeq(LittleEndian(value, calcsize(fmt))), err |-> OK]

\* byte i of bs at its place in the value, 0 past the end of bs
PlaceValue(bs, i) ==
    IF i <= Len(bs) /\ bs[i] # 0 THEN bs[i] * 256 ^ (i - 1) ELSE 0

\* the value of at most eight bytes, the least significant first
FromLittleEndian(bs) ==
    PlaceValue(bs, 1) + PlaceValue(bs, 2) + PlaceValue(bs, 3) + PlaceValue(bs, 4)
      + PlaceValue(bs, 5) + PlaceValue(bs, 6) + PlaceValue(bs, 7) + PlaceValue(bs, 8)

\* unpackEntry(f, entry): reads calcsize bytes; fewer left is struct.error
unpackEntry(f, fmt) ==
    IF ~RHas(f, calcsize(fmt))
    THEN [err |-> "struct.error", val |-> 0, rest |-> <<>>]
    ELSE [err |-> OK, val |-> FromLittleEndian(RTakeSeq(f, calcsize(fmt))),
          rest |-> RDrop(f, calcsize(fmt))]

(***************************************************************************)
(* Codecs of utils.py                                                      *)
(***************************************************************************)
\* (n << 1) ^ (n >> 31) for a 32-bit signed n
zigZagEncode(n) == IF n >= 0 THEN 2 * n ELSE -2 * n - 1

\* (value >> 1) ^ (-(value & 1))
zigZagDecode(value) ==
    IF value % 2 = 0 THEN value \div 2 ELSE -((value + 1) \div 2)

RECURSIVE encodeFrom(_, _)
encodeFrom(indices, highest) ==
    IF indices = <<>> THEN <<>>
    ELSE LET code == highest - indices[1]
         IN  <<code>> \o encodeFrom(Tail(indices),
                                    IF code = 0 THEN highest + 1 ELSE highest)

\* high-water-mark encoding
encodeIndices(indices) == encodeFrom(indices, 0)

RECURSIVE decodeFrom(_, _)
decodeFrom(codes, highest) ==
    IF codes = <<>> THEN <<>>
    ELSE <<highest - codes[1]>>
            \o decodeFrom(Tail(codes),
                          IF codes[1] = 0 THEN highest + 1 ELSE highest)

decodeIndices(codes) == decodeFrom(codes, 0)


(***************************************************************************)
(* Extension payload values                                                *)
(***************************************************************************)
\* A normal is a unit vector <<a, b, c>> along an axis (oct = FALSE), or the
\* vector octDecode(a, b) stands for (oct = TRUE, c = 0): the pair of bytes it
\* was decoded from determines it.
Vec(a, b, c) == [a |-> a, b |-> b, c |-> c, oct |-> FALSE]

\* toSnorm: round((v * 0.5 + 0.5) * 255) for v in {-1, 0, 1}
toSnorm(val) == CASE val = -1 -> 0 [] val = 0 -> 128 [] val = 1 -> 255

signNotZero(val) == IF val < 0 THEN -1 ELSE 1

Abs(val) == IF val < 0 THEN -val ELSE val

\* octEncode(vec): the two bytes <<x, y>>
octEncode(vec) ==
    IF vec.oct THEN <<vec.a, vec.b>>
    ELSE IF vec.c < 0
         THEN <<toSnorm((1 - Abs(vec.b)) * signNotZero(vec.a)),
                toSnorm((1 - Abs(vec.a)) * signNotZero(vec.b))>>
         ELSE <<toSnorm(vec.a), toSnorm(vec.b)>>

\* octDecode(x, y)
octDecode(xb, yb) == [a |-> xb, b |-> yb, c |-> 0, oct |-> TRUE]

\* Python's None where a watermask byte is expected
None == -1

\* An element of the watermask list: a bare integer ([255]) or a row of bytes
Scalar(b) == [isRow |-> FALSE, int |-> b, row |-> <<>>]
Row(r) == [isRow |-> TRUE, int |-> 0, row |-> r]

(***************************************************************************)
(* Layout tables of the class (terrain.py 106-176)                         *)
(***************************************************************************)
TILEPXS == 65536

quantizedMeshHeader ==
    << <<"centerX", "d">>, <<"centerY", "d">>, <<"centerZ", "d">>,
       <<"minimumHeight", "f">>, <<"maximumHeight", "f">>,
       <<"boundingSphereCenterX", "d">>, <<"boundingSphereCenterY", "d">>,
       <<"boundingSphereCenterZ", "d">>, <<"boundingSphereRadius", "d">>,
       <<"horizonOcclusionPointX", "d">>, <<"horizonOcclusionPointY", "d">>,
       <<"horizonOcclusionPointZ", "d">> >>

HeaderKeys == {quantizedMeshHeader[i][1] : i \in 1..Len(quantizedMeshHeader)}

vertexData ==
    [vertexCount |-> "I", uVertexCount |-> "H", vVertexCount |-> "H",
     heightVertexCount |-> "H"]

indexData16 == [indices |-> "H", triangleCount |-> "I"]
indexData32 == [indices |-> "I", triangleCount |-> "I"]

EdgeIndices16 ==
    [westVertexCount |-> "I", westIndices |-> "H",
     southVertexCount |-> "I", southIndices |-> "H",
     eastVertexCount |-> "I", eastIndices |-> "H",
     northVertexCount |-> "I", northIndices |-> "H"]
EdgeIndices32 ==
    [westVertexCount |-> "I", westIndices |-> "I",
     southVertexCount |-> "I", southIndices |-> "I",
     eastVertexCount |-> "I", eastIndices |-> "I",
     northVertexCount |-> "I", northIndices |-> "I"]

ExtensionHeader == [extensionId |-> "B", extensionLength |-> "I"]
OctEncodedVertexNormals == [xy |-> "B"]
WaterMask == [xy |-> "B"]

BYTESPLIT == 65636

MIN == 0
MAX == 32767

\* meta[key]: the format, or KeyError when the table has no such key
HasKey(meta, key) == key \in DOMAIN meta

(***************************************************************************)
(* TerrainTile.__init__ without a topology (terrain.py 179-208)            *)
(***************************************************************************)
\* hasLighting is not assigned by the constructor: the attribute exists only
\* once hasLightingSet is TRUE.  The caches _workingUnitLongitude,
\* _workingUnitLatitude and _deltaHeight hold 0 for None: the code tests them
\* with "not", which takes None and 0 alike.  A working unit MAX / span is held
\* as its span.
NewTile(bounds, watermask, hasWatermask) ==
    [v |-> <<>>, indices |-> <<>>,
     watermask |-> watermask, hasWatermask |-> hasWatermask,
     west |-> bounds[1], south |-> bounds[2],
     east |-> bounds[3], north |-> bounds[4],
     workingUnitLongitude |-> 0, workingUnitLatitude |-> 0, deltaHeight |-> 0,
     vLight |-> <<>>, hasLightingSet |-> FALSE, hasLighting |-> FALSE,
     header |-> [k \in HeaderKeys |-> 0],
     u |-> <<>>, h |-> <<>>,
     westI |-> <<>>, southI |-> <<>>, eastI |-> <<>>, northI |-> <<>>]

(***************************************************************************)
(* _writeTo (terrain.py 606-720).  A writer state is [out, err, tile]: the  *)
(* bytes written to f so far, the exception that ended the write (OK while  *)
(* none), and the tile, which the writer assigns to.                        *)
(***************************************************************************)
Raise(w, e) == IF w.err # OK THEN w ELSE [w EXCEPT !.err = e]

\* f.write(packEntry(...)) k times over, p what packEntry returned: its
\* exception ends the write before f.write is called
Write(w, p, k) ==
    IF p.err # OK THEN [w EXCEPT !.err = p.err]
    ELSE [w EXCEPT !.out = RCat(@, RTimes(p.bytes, k))]

\* f.write(packEntry(fmt, value))
Emit(w, fmt, value) ==
    IF w.err # OK THEN w ELSE Write(w, packEntry(fmt, value), 1)

\* one f.write(packEntry(fmt, val)) for each element of an encoded list, in
\* order, up to the first value the format refuses
RECURSIVE EmitAll(_, _, _)
EmitAll(w, fmt, vals) ==
    IF w.err # OK \/ vals = <<>> THEN w
    ELSE EmitAll(Write(w, packEntry(fmt, vals[1].v), vals[1].n), fmt, Tail(vals))

\* for k, v in quantizedMeshHeader.items(): f.write(packEntry(v, header[k]))
RECURSIVE WriteHeader(_, _)
WriteHeader(w, i) ==
    IF w.err # OK \/ i > Len(quantizedMeshHeader) THEN w
    ELSE WriteHeader(Emit(w, quantizedMeshHeader[i][2],
                          w.tile.header[quantizedMeshHeader[i][1]]), i + 1)

\* zigZagEncode of l[0], then of l[i + 1] - l[i] for each i, as a list
RECURSIVE DeltaZigZag(_, _)
DeltaZigZag(l, prev) ==
    IF l = <<>> THEN <<>>
    ELSE RCat(RCat(RRep(zigZagEncode(l[1].v - prev), 1),
                   RRep(zigZagEncode(0), l[1].n - 1)),
              DeltaZigZag(Tail(l), l[1].v))

\* One vertex stream: l[0], then the vertexCount - 1 differences.  l[0] of an
\* empty list and l[i + 1] past the end of a short one are IndexError, after
\* the entries before it are written.
WriteVertexStream(w, l, fmt0, fmt, vertexCount) ==
    IF w.err # OK THEN w
    ELSE IF l = <<>> THEN Raise(w, "IndexError")
    ELSE IF RLen(l) < vertexCount
    THEN Raise(EmitAll(Emit(w, fmt0, zigZagEncode(RAt(l, 0))), fmt,
                       RDrop(DeltaZigZag(l, 0), 1)),
               "IndexError")
    ELSE EmitAll(Emit(w, fmt0, zigZagEncode(RAt(l, 0))), fmt,
                 RDrop(DeltaZigZag(RTake(l, vertexCount), 0), 1))

\* vertexCount = len(self.u), then the u, v and h streams
WriteVertices(w) ==
    IF w.err # OK THEN w
    ELSE
    WriteVertexStream(
        WriteVertexStream(
            WriteVertexStream(
                Emit(w, vertexData["vertexCount"], RLen(w.tile.u)),
                w.tile.u, vertexData["uVertexCount"],
                vertexData["uVertexCount"], RLen(w.tile.u)),
            w.tile.v, vertexData["uVertexCount"],
            vertexData["vVertexCount"], RLen(w.tile.u)),
        w.tile.h, vertexData["uVertexCount"],
        vertexData["heightVertexCount"], RLen(w.tile.u))

\* the table the writer takes for the triangle indices
WriteIndexMeta(vertexCount) ==
    IF vertexCount > BYTESPLIT THEN indexData32 ELSE indexData16

\* the table the writer takes for the four edge blocks
WriteEdgeMeta(vertexCount) ==
    IF vertexCount > BYTESPLIT THEN EdgeIndices32 ELSE EdgeIndices16

WriteIndices(w) ==
    IF w.err # OK THEN w
    ELSE
    EmitAll(Emit(w, WriteIndexMeta(RLen(w.tile.u))["triangleCount"],
                 Len(w.tile.indices) \div 3),
            WriteIndexMeta(RLen(w.tile.u))["indices"],
            RFromSeq(encodeIndices(w.tile.indices)))

\* one edge block: the count, then each index as it is
WriteEdge(w, countKey, indicesKey, edge) ==
    IF w.err # OK THEN w
    ELSE
    EmitAll(Emit(w, WriteEdgeMeta(RLen(w.tile.u))[countKey], Len(edge)),
            WriteEdgeMeta(RLen(w.tile.u))[indicesKey], RFromSeq(edge))

WriteEdges(w) ==
    IF w.err # OK THEN w
    ELSE
    WriteEdge(
        WriteEdge(
            WriteEdge(
                WriteEdge(w, "westVertexCount", "westIndices", w.tile.westI),
                "southVertexCount", "southIndices", w.tile.southI),
            "eastVertexCount", "eastIndices", w.tile.eastI),
        "northVertexCount", "northIndices", w.tile.northI)

\* the x, y bytes of the normals of a list, in order
RECURSIVE OctBytes(_)
OctBytes(l) ==
    IF l = <<>> THEN <<>>
    ELSE RCat(RTimes(RFromSeq(octEncode(l[1].v)), l[1].n), OctBytes(Tail(l)))

\* f.write of bytes already packed
WriteBytes(w, bytes) ==
    IF w.err # OK THEN w ELSE [w EXCEPT !.out = RCat(@, bytes)]

\* self.hasLighting = True, then the extension header
WriteLightHeader(w) ==
    Emit(Emit([w EXCEPT !.tile.hasLighting = TRUE, !.tile.hasLightingSet = TRUE],
              ExtensionHeader["extensionId"], 1),
         ExtensionHeader["extensionLength"], 2 * RLen(w.tile.u))

\* if len(self.vLight) > 0: the flag, the extension header, one pair of bytes
\* for each of the vertexCount vertices; vLight[i] past the end is IndexError
WriteLight(w) ==
    IF w.err # OK \/ w.tile.vLight = <<>> THEN w
    ELSE IF RLen(w.tile.vLight) < RLen(w.tile.u)
    THEN Raise(WriteBytes(WriteLightHeader(w), OctBytes(w.tile.vLight)),
               "IndexError")
    ELSE WriteBytes(WriteLightHeader(w),
                    OctBytes(RTake(w.tile.vLight, RLen(w.tile.u))))

\* for y in x: f.write(packEntry('B', int(y))); int(None) is TypeError
RECURSIVE WriteRowBytes(_, _)
WriteRowBytes(w, row) ==
    IF w.err # OK \/ row = <<>> THEN w
    ELSE IF row[1].v = None THEN Raise(w, "TypeError")
    ELSE WriteRowBytes(EmitAll(w, WaterMask["xy"], <<row[1]>>), Tail(row))

\* one row of the grid: len(x) of a bare integer is TypeError, a length other
\* than 256 the column Exception
WriteRow(w, x) ==
    IF w.err # OK THEN w
    ELSE IF ~x.isRow THEN Raise(w, "TypeError")
    ELSE IF RLen(x.row) # 256 THEN Raise(w, "Exception: columns")
    ELSE WriteRowBytes(w, x.row)

RECURSIVE WriteRowTimes(_, _, _)
WriteRowTimes(w, x, k) ==
    IF w.err # OK \/ k = 0 THEN w
    ELSE IF x.isRow /\ Len(x.row) = 1 /\ RLen(x.row) = 256 /\ x.row[1].v # None
         THEN EmitAll(w, WaterMask["xy"], RRep(x.row[1].v, 256 * k))
    ELSE WriteRowTimes(WriteRow(w, x), x, k - 1)

\* for i in range(0, nbRows): the rows from north to south
RECURSIVE WriteRows(_, _)
WriteRows(w, rows) ==
    IF w.err # OK \/ rows = <<>> THEN w
    ELSE WriteRows(WriteRowTimes(w, rows[1].v, rows[1].n), Tail(rows))

\* a writer that sets self.watermask[0][0] = 0 whatever it holds
AlwaysZero(w) ==
    [w EXCEPT !.tile.watermask =
        <<[n |-> 1, v |-> Row(RCat(RRep(0, 1), RDrop(RAt(@, 0).row, 1)))]>>]

\* if self.watermask[0][0] is None: self.watermask[0][0] = 0
NoneToZero(w) ==
    IF RAt(RAt(w.tile.watermask, 0).row, 0) = None
    THEN [w EXCEPT !.tile.watermask =
             <<[n |-> 1, v |-> Row(RCat(RRep(0, 1), RDrop(RAt(@, 0).row, 1)))]>>]
    ELSE w

\* f.write(packEntry('B', int(self.watermask[0][0])))
WriteFirstByte(w) ==
    Emit(w, WaterMask["xy"], RAt(RAt(w.tile.watermask, 0).row, 0))

\* self.watermask[0][0]: subscripting a bare integer is TypeError, an empty
\* row IndexError; None is replaced by 0 in the tile
WriteUniform(w) ==
    IF w.err # OK THEN w
    ELSE IF ~RAt(w.tile.watermask, 0).isRow THEN Raise(w, "TypeError")
    ELSE IF RAt(w.tile.watermask, 0).row = <<>> THEN Raise(w, "IndexError")
    ELSE WriteFirstByte(NoneToZero(w))

\* self.hasWatermask = True, then the extension id
WriteWatermaskId(w) ==
    Emit([w EXCEPT !.tile.hasWatermask = TRUE], ExtensionHeader["extensionId"], 2)

\* if self.watermask: the flag, the extension header, the grid or the byte
WriteWatermask(w) ==
    IF w.err # OK \/ w.tile.watermask = <<>> THEN w
    ELSE IF RLen(w.tile.watermask) > 1 /\ RLen(w.tile.watermask) # 256
    THEN Raise(Emit(WriteWatermaskId(w),
                    ExtensionHeader["extensionLength"], TILEPXS),
               "Exception: rows")
    ELSE IF RLen(w.tile.watermask) > 1
    THEN WriteRows(Emit(WriteWatermaskId(w),
                        ExtensionHeader["extensionLength"], TILEPXS),
                   w.tile.watermask)
    ELSE WriteUniform(Emit(WriteWatermaskId(w),
                           ExtensionHeader["extensionLength"], 1))

\* _writeTo(f) on an empty f: [out, err, tile]
writeTo(tile) ==
    WriteWatermask(WriteLight(WriteEdges(WriteIndices(WriteVertices(
        WriteHeader([err |-> OK, out |-> <<>>, tile |-> tile], 1))))))

(***************************************************************************)
(* fromBytesIO (terrain.py 314-462).  A reader state is [f, err, tile,      *)
(* vertexCount, val]: the bytes of f not yet read, the exception that ended *)
(* the read (OK while none), the tile, which the reader assigns to as it    *)
(* goes, the local vertexCount, and the value unpackEntry returned last.    *)
(* An iterator state is [vals, f, err, val, x]: the values yielded so far,  *)
(* the bytes not yet read, the exception, the value unpacked last and the   *)
(* first byte of a pair.                                                    *)
(***************************************************************************)
\* what unpackEntry returned, taken into a reader or an iterator state
Took(r, e) ==
    IF e.err # OK THEN [r EXCEPT !.err = e.err]
    ELSE [r EXCEPT !.f = e.rest, !.val = e.val]

\* val = unpackEntry(f, fmt)
Unpack(r, fmt) == IF r.err # OK THEN r ELSE Took(r, unpackEntry(r.f, fmt))

\* an iterator over f that has yielded nothing yet
Iter(f) == [x |-> 0, f |-> f, err |-> OK, val |-> 0, vals |-> <<>>]

\* the last element of a list, 0 for the empty list
LastOr0(l) == IF l = <<>> THEN 0 ELSE l[Len(l)].v

\* delta += zigZagDecode(val); yield delta
YieldDelta(it) ==
    IF it.err # OK THEN it
    ELSE [it EXCEPT !.vals = RAppend(@, LastOr0(@) + zigZagDecode(it.val))]

\* _iterUnpackAndDecodeVertices, count values to go; delta is the value
\* yielded last, 0 at the start.  A run of zero bytes is a run of zero deltas
\* and is taken in one step.
RECURSIVE iterUnpackAndDecodeVertices(_, _, _)
iterUnpackAndDecodeVertices(it, count, fmt) ==
    IF it.err # OK \/ count = 0 THEN it
    ELSE IF it.f # <<>> /\ it.f[1].v = 0 /\ it.f[1].n >= calcsize(fmt)
    THEN LET m == Min(it.f[1].n \div calcsize(fmt), count)
         IN  iterUnpackAndDecodeVertices(
                 [it EXCEPT !.f = RDrop(@, m * calcsize(fmt)),
                            !.vals = RCat(@, RRep(LastOr0(@), m))],
                 count - m, fmt)
    ELSE iterUnpackAndDecodeVertices(YieldDelta(Unpack(it, fmt)), count - 1, fmt)

\* yield val
Yield(it) == IF it.err # OK THEN it ELSE [it EXCEPT !.vals = Append(@, it.val)]

\* _iterUnpackIndices: vals a sequence
RECURSIVE iterUnpackIndices(_, _, _)
iterUnpackIndices(it, count, fmt) ==
    IF it.err # OK \/ count = 0 THEN it
    ELSE iterUnpackIndices(Yield(Unpack(it, fmt)), count - 1, fmt)

\* x = the value unpacked
HoldX(it) == IF it.err # OK THEN it ELSE [it EXCEPT !.x = it.val]

\* yield octDecode(x, y)
YieldNormal(it) ==
    IF it.err # OK THEN it
    ELSE [it EXCEPT !.vals = RAppend(@, octDecode(it.x, it.val))]

\* _iterUnpackAndDecodeLight with xyCount = extensionLength / 2 pairs to go;
\* count < 0 stands for a count the loop's i never equals.  The pairs of one
\* run of bytes are taken in one step.
RECURSIVE iterUnpackAndDecodeLight(_, _, _)
iterUnpackAndDecodeLight(it, count, fmt) ==
    IF it.err # OK \/ count = 0 THEN it
    ELSE IF it.f # <<>> /\ it.f[1].n >= 2 * calcsize(fmt)
    THEN LET m == IF count < 0 THEN it.f[1].n \div (2 * calcsize(fmt))
                  ELSE Min(it.f[1].n \div (2 * calcsize(fmt)), count)
         IN  iterUnpackAndDecodeLight(
                 [it EXCEPT !.f = RDrop(@, 2 * m * calcsize(fmt)),
                            !.vals = RCat(@, RRep(octDecode(it.f[1].v, it.f[1].v), m))],
                 count - m, fmt)
    ELSE iterUnpackAndDecodeLight(
             YieldNormal(Unpack(HoldX(Unpack(it, fmt)), fmt)), count - 1, fmt)

\* _iterUnpackWatermaskRow: rows of 256 bytes, a shorter last row if bytes are
\* left over; i is the place in the row, row the bytes gathered.  The bytes of
\* one run that fall in one row are taken in one step, and so are the whole
\* rows a run holds.
RECURSIVE iterUnpackWatermaskRow(_, _, _, _, _)
iterUnpackWatermaskRow(f, left, fmt, i, row) ==
    IF left = 0
    THEN [f |-> f, err |-> OK,
          vals |-> IF row # <<>> THEN RRep(Row(row), 1) ELSE <<>>]
    ELSE IF f = <<>> THEN [f |-> f, err |-> "struct.error", vals |-> <<>>]
    ELSE IF i = 0 /\ f[1].n >= 256 /\ left >= 256
    THEN LET k == Min(f[1].n \div 256, left \div 256)
             more == iterUnpackWatermaskRow(RDrop(f, 256 * k), left - 256 * k,
                                            fmt, 0, <<>>)
         IN  [more EXCEPT !.vals = RCat(RRep(Row(RRep(f[1].v, 256)), k), @)]
    ELSE LET m == Min(Min(f[1].n, left), 256 - i)
             filled == RCat(row, RRep(f[1].v, m))
             rest == RDrop(f, m)
         IN  IF i + m = 256
             THEN LET more == iterUnpackWatermaskRow(rest, left - m, fmt, 0, <<>>)
                  IN  [more EXCEPT !.vals = RCat(RRep(Row(filled), 1), @)]
             ELSE iterUnpackWatermaskRow(rest, left - m, fmt, i + m, filled)

\* self.header[k] = the value unpacked
SetHeaderField(r, k) ==
    IF r.err # OK THEN r ELSE [r EXCEPT !.tile.header[k] = r.val]

\* for k, v in quantizedMeshHeader.items(): self.header[k] = unpackEntry(f, v)
RECURSIVE ReadHeader(_, _)
ReadHeader(r, i) ==
    IF r.err # OK \/ i > Len(quantizedMeshHeader) THEN r
    ELSE ReadHeader(SetHeaderField(Unpack(r, quantizedMeshHeader[i][2]),
                                   quantizedMeshHeader[i][1]),
                    i + 1)

\* vertexCount = the value unpacked
SetVertexCount(r) == IF r.err # OK THEN r ELSE [r EXCEPT !.vertexCount = r.val]

\* vertexCount = unpackEntry(f, vertexData['vertexCount'])
ReadVertexCount(r) ==
    IF r.err # OK THEN r
    ELSE SetVertexCount(Unpack(r, vertexData["vertexCount"]))

\* "for x in it: self.<field>.append(x)": what the iterator yielded before it
\* ended or raised is appended
AppendAll(r, it, field) ==
    [r EXCEPT !.f = it.f, !.err = it.err, !.tile[field] = RCat(@, it.vals)]

\* one loop "for ud in self._iterUnpackAndDecodeVertices(...)"
ReadVertexStream(r, fmt, field) ==
    IF r.err # OK THEN r
    ELSE AppendAll(r, iterUnpackAndDecodeVertices(Iter(r.f), r.vertexCount, fmt),
                   field)

\* the three loops over u, v and h
ReadVertices(r) ==
    IF r.err # OK THEN r
    ELSE
    ReadVertexStream(
        ReadVertexStream(
            ReadVertexStream(r, vertexData["uVertexCount"], "u"),
            vertexData["vVertexCount"], "v"),
        vertexData["heightVertexCount"], "h")

\* the table the reader takes for the triangle indices
ReadIndexMeta(vertexCount) ==
    IF vertexCount > BYTESPLIT THEN indexData32 ELSE indexData16

\* the table the reader takes for the four edge blocks
ReadEdgeMeta(vertexCount) ==
    IF vertexCount > BYTESPLIT THEN indexData32 ELSE EdgeIndices16

\* self.indices = decodeIndices(ind), once the list ind is complete
SetIndices(r, it) ==
    IF it.err # OK THEN [r EXCEPT !.f = it.f, !.err = it.err]
    ELSE [r EXCEPT !.f = it.f, !.tile.indices = decodeIndices(it.vals)]

\* ind = [index for index in self._iterUnpackIndices(f, triangleCount * 3, ...)]
ReadIndexList(r) ==
    IF r.err # OK THEN r
    ELSE SetIndices(r, iterUnpackIndices(Iter(r.f), r.val * 3,
                                         ReadIndexMeta(r.vertexCount)["indices"]))

\* triangleCount, then the indices
ReadIndices(r) ==
    IF r.err # OK THEN r
    ELSE ReadIndexList(Unpack(r, ReadIndexMeta(r.vertexCount)["triangleCount"]))

\* "for wi in ...: self.westI.append(wi)" on one of the four edge lists
AppendEdge(r, it, field) ==
    [r EXCEPT !.f = it.f, !.err = it.err, !.tile[field] = @ \o it.vals]

\* the indices of one edge block, r.val of them; a key the table lacks is
\* KeyError
ReadEdgeIndices(r, indicesKey, field) ==
    IF r.err # OK THEN r
    ELSE IF ~HasKey(ReadEdgeMeta(r.vertexCount), indicesKey)
    THEN [r EXCEPT !.err = "KeyError"]
    ELSE AppendEdge(r, iterUnpackIndices(Iter(r.f), r.val,
                                         ReadEdgeMeta(r.vertexCount)[indicesKey]),
                    field)

\* one edge block: the count, then the indices; a key the table lacks is
\* KeyError before anything is read
ReadEdge(r, countKey, indicesKey, field) ==
    IF r.err # OK THEN r
    ELSE IF ~HasKey(ReadEdgeMeta(r.vertexCount), countKey)
    THEN [r EXCEPT !.err = "KeyError"]
    ELSE ReadEdgeIndices(Unpack(r, ReadEdgeMeta(r.vertexCount)[countKey]),
                         indicesKey, field)

ReadEdges(r) ==
    IF r.err # OK THEN r
    ELSE
    ReadEdge(
        ReadEdge(
            ReadEdge(
                ReadEdge(r, "westVertexCount", "westIndices", "westI"),
                "southVertexCount", "southIndices", "southI"),
            "eastVertexCount", "eastIndices", "eastI"),
        "northVertexCount", "northIndices", "northI")

\* the loop over _iterUnpackAndDecodeLight, r.val the extensionLength read
ReadNormals(r) ==
    IF r.err # OK THEN r
    ELSE AppendAll(r, iterUnpackAndDecodeLight(
                          Iter(r.f),
                          IF r.val % 2 = 0 THEN r.val \div 2 ELSE -1,
                          OctEncodedVertexNormals["xy"]),
                   "vLight")

\* if extensionId == 1: the length and the normals; nothing otherwise
ReadLightExtension(r) ==
    IF r.err # OK \/ r.val # 1 THEN r
    ELSE ReadNormals(Unpack(r, ExtensionHeader["extensionLength"]))

\* if self.hasLighting: the extension header; the normals only if its id is 1
ReadLight(r) ==
    IF r.err # OK \/ ~r.tile.hasLighting THEN r
    ELSE ReadLightExtension(Unpack(r, ExtensionHeader["extensionId"]))

\* the loop over _iterUnpackWatermaskRow, r.val the extensionLength read
ReadRows(r) ==
    IF r.err # OK THEN r
    ELSE AppendAll(r, iterUnpackWatermaskRow(r.f, r.val, WaterMask["xy"], 0, <<>>),
                   "watermask")

\* if extensionId == 2: the length and the rows; nothing otherwise
ReadWatermaskExtension(r) ==
    IF r.err # OK \/ r.val # 2 THEN r
    ELSE ReadRows(Unpack(r, ExtensionHeader["extensionLength"]))

\* if self.hasWatermask: the extension header; the rows only if its id is 2
ReadWatermask(r) ==
    IF r.err # OK \/ ~r.tile.hasWatermask THEN r
    ELSE ReadWatermaskExtension(Unpack(r, ExtensionHeader["extensionId"]))

\* fromBytesIO(f, hasLighting, hasWatermask): the reader state at its end
fromBytesIO(tile, f, hasLighting, hasWatermask) ==
    ReadWatermask(ReadLight(ReadEdges(ReadIndices(ReadVertices(ReadVertexCount(
        ReadHeader([f |-> f, err |-> OK, val |-> 0, vertexCount |-> 0,
                    tile |-> [tile EXCEPT !.hasLighting = hasLighting,
                                          !.hasLightingSet = TRUE,
                                          !.hasWatermask = hasWatermask]],
                   1)))))))

(***************************************************************************)
(* Quantization (terrain.py 560-593)                                       *)
(***************************************************************************)
\* int(round(num / den)), den # 0: Python 3 rounds a half to the even side
RoundHalfEven(num, den) ==
    LET nn == IF den < 0 THEN -num ELSE num
        dd == IF den < 0 THEN -den ELSE den
        q == nn \div dd
        rem == nn - q * dd
    IN  IF 2 * rem < dd THEN q
        ELSE IF 2 * rem > dd THEN q + 1
        ELSE IF q % 2 = 0 THEN q ELSE q + 1

\* [int(round((x - lo) * (MAX / span))) for x in l]
RECURSIVE QuantizeList(_, _, _)
QuantizeList(l, lo, span) ==
    IF l = <<>> THEN <<>>
    ELSE RCat(RRep(RoundHalfEven((l[1].v - lo) * MAX, span), l[1].n),
              QuantizeList(Tail(l), lo, span))

\* _getWorkingUnitLongitude: the cached unit when there is one
getWorkingUnitLongitude(t) ==
    IF t.workingUnitLongitude = 0 THEN t.east - t.west ELSE t.workingUnitLongitude

\* _getWorkingUnitLatitude
getWorkingUnitLatitude(t) ==
    IF t.workingUnitLatitude = 0 THEN t.north - t.south ELSE t.workingUnitLatitude

\* _getDeltaHeight
getDeltaHeight(t) ==
    IF t.deltaHeight = 0
    THEN t.header["maximumHeight"] - t.header["minimumHeight"]
    ELSE t.deltaHeight

(***************************************************************************)
(* fromTerrainTopology (terrain.py 722-832)                                *)
(***************************************************************************)
DefaultBounds == <<-1, -1, 1, 1>>

\* "bounds is None" is the empty tuple here
NoBounds == <<>>

\* set([west, south, east, north]).difference(set([-1.0, -1.0, 1.0, 1.0]))
BoundsDefined(t) == {t.west, t.south, t.east, t.north} \ {-1, 1} # {}

\* a fromTerrainTopology that takes the topology's extent whenever it is
\* given no bounds, whatever bounds the tile has
SetBoundsFromTopology(c, topology, bounds) ==
    IF bounds # NoBounds
    THEN [c EXCEPT !.tile.west = bounds[1], !.tile.east = bounds[3],
                   !.tile.south = bounds[2], !.tile.north = bounds[4]]
    ELSE [c EXCEPT !.tile.west = topology.minLon, !.tile.east = topology.maxLon,
                   !.tile.south = topology.minLat, !.tile.north = topology.maxLat]

\* A call of fromTerrainTopology in progress is [tile, err]: the tile as
\* assigned to so far and the exception that ended the call (OK while none).
SetBounds(c, topology, bounds) ==
    IF bounds # NoBounds
    THEN [c EXCEPT !.tile.west = bounds[1], !.tile.east = bounds[3],
                   !.tile.south = bounds[2], !.tile.north = bounds[4]]
    ELSE IF BoundsDefined(c.tile) THEN c
    ELSE [c EXCEPT !.tile.west = topology.minLon, !.tile.east = topology.maxLon,
                   !.tile.south = topology.minLat, !.tile.north = topology.maxLat]

\* the twelve header fields; the bounding sphere and the occlusion point are
\* computed outside this file and come with the topology
SetHeader(c, topology) ==
    [c EXCEPT !.tile.header =
        [k \in HeaderKeys |->
            CASE k = "centerX" ->
                   topology.ecefMin[1] + (topology.ecefMax[1] - topology.ecefMin[1]) \div 2
              [] k = "centerY" ->
                   topology.ecefMin[2] + (topology.ecefMax[2] - topology.ecefMin[2]) \div 2
              [] k = "centerZ" ->
                   topology.ecefMin[3] + (topology.ecefMax[3] - topology.ecefMin[3]) \div 2
              [] k = "minimumHeight" -> topology.minHeight
              [] k = "maximumHeight" -> topology.maxHeight
              [] k = "boundingSphereCenterX" -> topology.bSphere.center[1]
              [] k = "boundingSphereCenterY" -> topology.bSphere.center[2]
              [] k = "boundingSphereCenterZ" -> topology.bSphere.center[3]
              [] k = "boundingSphereRadius" -> topology.bSphere.radius
              [] k = "horizonOcclusionPointX" -> topology.occlusion[1]
              [] k = "horizonOcclusionPointY" -> topology.occlusion[2]
              [] k = "horizonOcclusionPointZ" -> topology.occlusion[3]]]

\* self.u = [self._quantizeLongitude(longitude) for longitude in topology.uVertex]:
\* MAX / (east - west) is ZeroDivisionError, and then nothing is assigned
SetU(c, topology) ==
    IF c.err # OK THEN c
    ELSE IF topology.uVertex = <<>> THEN [c EXCEPT !.tile.u = <<>>]
    ELSE IF getWorkingUnitLongitude(c.tile) = 0
    THEN [c EXCEPT !.err = "ZeroDivisionError"]
    ELSE [c EXCEPT !.tile.workingUnitLongitude = getWorkingUnitLongitude(c.tile),
                   !.tile.u = QuantizeList(topology.uVertex, c.tile.west,
                                           getWorkingUnitLongitude(c.tile))]

\* self.v = [self._quantizeLatitude(latitude) for latitude in topology.vVertex]
SetV(c, topology) ==
    IF c.err # OK THEN c
    ELSE IF topology.vVertex = <<>> THEN [c EXCEPT !.tile.v = <<>>]
    ELSE IF getWorkingUnitLatitude(c.tile) = 0
    THEN [c EXCEPT !.err = "ZeroDivisionError"]
    ELSE [c EXCEPT !.tile.workingUnitLatitude = getWorkingUnitLatitude(c.tile),
                   !.tile.v = QuantizeList(topology.vVertex, c.tile.south,
                                           getWorkingUnitLatitude(c.tile))]

\* self.h = [self._quantizeHeight(height) for height in topology.hVertex]:
\* 0 for each height of a flat tile
SetH(c, topology) ==
    IF c.err # OK THEN c
    ELSE IF topology.hVertex = <<>> THEN [c EXCEPT !.tile.h = <<>>]
    ELSE IF getDeltaHeight(c.tile) = 0
    THEN [c EXCEPT !.tile.h = RRep(0, RLen(topology.hVertex))]
    ELSE [c EXCEPT !.tile.deltaHeight = getDeltaHeight(c.tile),
                   !.tile.h = QuantizeList(topology.hVertex,
                                           c.tile.header["minimumHeight"],
                                           getDeltaHeight(c.tile))]

\* self.indices = topology.indexData
SetIndexData(c, topology) ==
    IF c.err # OK THEN c ELSE [c EXCEPT !.tile.indices = topology.indexData]

InSeq(e, s) == \E i \in 1..Len(s) : s[i] = e

\* an edge loop that appends without the "indice not in" tests
ListWestEastAgain(c, indice) ==
    IF RAt(c.tile.u, indice) = MIN
    THEN [c EXCEPT !.tile.westI = Append(@, indice)]
    ELSE IF RAt(c.tile.u, indice) = MAX
    THEN [c EXCEPT !.tile.eastI = Append(@, indice)]
    ELSE c

\* the first "if ... elif" of the loop body, x = self.u[indice]
ListWestEast(c, indice) ==
    IF RAt(c.tile.u, indice) = MIN /\ ~InSeq(indice, c.tile.westI)
    THEN [c EXCEPT !.tile.westI = Append(@, indice)]
    ELSE IF RAt(c.tile.u, indice) = MAX /\ ~InSeq(indice, c.tile.eastI)
    THEN [c EXCEPT !.tile.eastI = Append(@, indice)]
    ELSE c

\* the second "if ... elif" of the loop body, y = self.v[indice]
ListSouthNorth(c, indice) ==
    IF RAt(c.tile.v, indice) = MIN /\ ~InSeq(indice, c.tile.southI)
    THEN [c EXCEPT !.tile.southI = Append(@, indice)]
    ELSE IF RAt(c.tile.v, indice) = MAX /\ ~InSeq(indice, c.tile.northI)
    THEN [c EXCEPT !.tile.northI = Append(@, indice)]
    ELSE c

\* the loop over self.indices that appends to the four edge lists;
\* self.u[indice] or self.v[indice] past the end is IndexError
RECURSIVE ListEdges(_, _)
ListEdges(c, indices) ==
    IF c.err # OK \/ indices = <<>> THEN c
    ELSE IF indices[1] >= RLen(c.tile.u) \/ indices[1] >= RLen(c.tile.v)
    THEN [c EXCEPT !.err = "IndexError"]
    ELSE ListEdges(ListSouthNorth(ListWestEast(c, indices[1]), indices[1]),
                   Tail(indices))

\* self.hasLighting = topology.hasLighting, and the normals if it is set
SetLighting(c, topology) ==
    IF c.err # OK THEN c
    ELSE [c EXCEPT !.tile.hasLighting = topology.hasLighting,
                   !.tile.hasLightingSet = TRUE,
                   !.tile.vLight = IF topology.hasLighting
                                   THEN topology.verticesUnitVectors ELSE @]

\* fromTerrainTopology(topology, bounds): [tile, err]
fromTerrainTopology(tile, topology, bounds) ==
    IF ~topology.isTopology THEN [err |-> "Exception: topology", tile |-> tile]
    ELSE SetLighting(
             ListEdges(
                 SetIndexData(
                     SetH(SetV(SetU(SetHeader(SetBounds([err |-> OK, tile |-> tile],
                                                        topology, bounds),
                                              topology),
                                    topology),
                               topology),
                          topology),
                     topology),
                 topology.indexData),
             topology)

\* TerrainTile(west, south, east, north, watermask, hasWatermask, topology):
\* the constructor, with the call of fromTerrainTopology it ends with
TerrainTile(bounds, watermask, hasWatermaskGiven, hasWatermask, topology) ==
    IF topology.isNone
    THEN [err |-> OK,
          tile |-> NewTile(bounds, watermask,
                           IF hasWatermaskGiven THEN hasWatermask
                           ELSE watermask # <<>>)]
    ELSE fromTerrainTopology(NewTile(bounds, watermask,
                                     IF hasWatermaskGiven THEN hasWatermask
                                     ELSE watermask # <<>>),
                             topology, NoBounds)

(***************************************************************************)
(* getContentType (terrain.py 242-254)                                     *)
(***************************************************************************)
baseContent == "application/vnd.quantized-mesh"

\* [ret, err]: reading self.hasLighting before any assignment to it is
\* AttributeError
getContentType(t) ==
    IF ~t.hasLightingSet THEN [err |-> "AttributeError", ret |-> ""]
    ELSE IF t.hasLighting /\ t.hasWatermask
    THEN [err |-> OK, ret |-> baseContent \o ";extensions=octvertexnormals-watermask"]
    ELSE IF t.hasLighting
    THEN [err |-> OK, ret |-> baseContent \o ";extensions=octvertexnormals"]
    ELSE IF t.hasWatermask
    THEN [err |-> OK, ret |-> baseContent \o ";extensions=watermask"]
    ELSE [err |-> OK, ret |-> baseContent]

(***************************************************************************)
(* Inputs: TerrainTopology objects, watermask lists, constructor arguments  *)
(***************************************************************************)
\* vertices a large tile has beyond its first three
PadVertices == BYTESPLIT - 2

NoTopology ==
    [hasLighting |-> FALSE, minLon |-> 0, maxLon |-> 0, minLat |-> 0,
     maxLat |-> 0, ecefMin |-> <<0, 0, 0>>, ecefMax |-> <<0, 0, 0>>,
     minHeight |-> 0, maxHeight |-> 0,
     bSphere |-> [center |-> <<0, 0, 0>>, radius |-> 0],
     occlusion |-> <<0, 0, 0>>, uVertex |-> <<>>, vVertex |-> <<>>,
     hVertex |-> <<>>, indexData |-> <<>>, verticesUnitVectors |-> <<>>,
     isTopology |-> FALSE, isNone |-> TRUE]

\* the unit square of four vertices and two triangles
SquareTopology ==
    [NoTopology EXCEPT
       !.isNone = FALSE, !.isTopology = TRUE,
       !.uVertex = RFromSeq(<<0, 2, 0, 2>>), !.vVertex = RFromSeq(<<0, 0, 2, 2>>),
       !.hVertex = RFromSeq(<<0, 10, 10, 0>>), !.indexData = <<0, 1, 2, 1, 3, 2>>,
       !.maxLon = 2, !.maxLat = 2, !.maxHeight = 10,
       !.ecefMax = <<2, 2, 2>>,
       !.bSphere = [center |-> <<1, 1, 1>>, radius |-> 2],
       !.occlusion = <<1, 1, 3>>]

\* one flat triangle with a normal for each vertex
LitTopology ==
    [NoTopology EXCEPT
       !.isNone = FALSE, !.isTopology = TRUE,
       !.uVertex = RFromSeq(<<0, 2, 1>>), !.vVertex = RFromSeq(<<0, 0, 2>>),
       !.hVertex = RFromSeq(<<5, 5, 5>>), !.indexData = <<0, 1, 2>>,
       !.hasLighting = TRUE,
       !.verticesUnitVectors = RFromSeq(<<Vec(0, 0, 1), Vec(1, 0, 0), Vec(0, 0, 1)>>),
       !.maxLon = 2, !.maxLat = 2, !.minHeight = 5, !.maxHeight = 5,
       !.ecefMax = <<4, 2, 2>>,
       !.bSphere = [center |-> <<2, 1, 1>>, radius |-> 3],
       !.occlusion = <<2, 1, 4>>]

\* BYTESPLIT + 1 vertices: one triangle, and PadVertices more vertices at
\* the place of its last one
LargeTopology ==
    [NoTopology EXCEPT
       !.isNone = FALSE, !.isTopology = TRUE,
       !.uVertex = RCat(RFromSeq(<<0, 2>>), RRep(1, PadVertices + 1)),
       !.vVertex = RCat(RFromSeq(<<0, 2>>), RRep(1, PadVertices + 1)),
       !.hVertex = RCat(RFromSeq(<<0, 10>>), RRep(4, PadVertices + 1)),
       !.indexData = <<0, 1, 2>>,
       !.maxLon = 2, !.maxLat = 2, !.maxHeight = 10,
       !.ecefMax = <<2, 2, 4>>,
       !.bSphere = [center |-> <<1, 1, 2>>, radius |-> 2],
       !.occlusion = <<1, 1, 5>>]


\* the topology arguments of fromTerrainTopology: the last is an object that
\* is no TerrainTopology
Topologies ==
    {SquareTopology, LitTopology, [NoTopology EXCEPT !.isNone = FALSE]}

\* watermask lists
NoMask == <<>>
FlatWater == RRep(Scalar(255), 1)
UniformWater == RRep(Row(RRep(255, 1)), 1)
UniformNone == RRep(Row(RRep(None, 1)), 1)
LandRow == RRep(0, 256)
CoastRow == RCat(RRep(255, 1), RRep(0, 255))
GridMask == RCat(RRep(Row(CoastRow), 1), RRep(Row(LandRow), 255))

Ctor(bounds, watermask, hasWatermaskGiven, hasWatermask, topology) ==
    [bounds |-> bounds, watermask |-> watermask,
     hasWatermask |-> hasWatermask, topology |-> topology,
     hasWatermaskGiven |-> hasWatermaskGiven]

\* the constructor calls of the model
CtorArgs ==
    { Ctor(DefaultBounds, NoMask, FALSE, FALSE, NoTopology),
      Ctor(DefaultBounds, NoMask, FALSE, FALSE, SquareTopology),
      Ctor(DefaultBounds, NoMask, FALSE, FALSE, LitTopology),
      Ctor(DefaultBounds, NoMask, FALSE, FALSE, LargeTopology),
      Ctor(<<0, 0, 4, 4>>, UniformWater, FALSE, FALSE, SquareTopology),
      Ctor(DefaultBounds, FlatWater, FALSE, FALSE, SquareTopology),
      Ctor(DefaultBounds, UniformNone, TRUE, FALSE, SquareTopology),
      \* one row of two values
      Ctor(DefaultBounds, RRep(Row(RFromSeq(<<1, 2>>)), 1), FALSE, FALSE,
           SquareTopology),
      Ctor(DefaultBounds, GridMask, FALSE, FALSE, LitTopology),
      \* two rows of 256 values
      Ctor(DefaultBounds, RCat(RRep(Row(CoastRow), 1), RRep(Row(LandRow), 1)),
           FALSE, FALSE, SquareTopology),
      \* 256 rows, the last of 255 values
      Ctor(DefaultBounds,
           RCat(RRep(Row(LandRow), 255), RRep(Row(RRep(0, 255)), 1)),
           FALSE, FALSE, SquareTopology) }

\* the bounds arguments of fromTerrainTopology
BoundsArgs == {NoBounds, <<0, 0, 4, 4>>}

\* the one file path of the model
Paths == {"tile.terrain"}

MaxSteps == 3

(***************************************************************************)
(* State                                                                   *)
(***************************************************************************)
VARIABLES
    tile,     \* the TerrainTile object the caller holds
    buf,      \* the io.BytesIO the last toBytesIO returned: [has, data]
    fs,       \* the files: path -> [exists, data]
    last,     \* the last call: its name, arguments, result and exception
    wrote,    \* the tile as it was when buf was written, and its origin
    origin,   \* how the tile got its data: new, topology, stream or mixed
    steps,    \* calls made so far
    shared    \* two tiles of one caller and the lists they refer to; <<>>
              \* where the caller holds the one tile only

vars == <<tile, buf, fs, last, wrote, origin, steps, shared>>

\* the bounds property: [self._west, self._south, self._east, self._north]
Bounds(t) == <<t.west, t.south, t.east, t.north>>

IsEmptyTile(t) ==
    /\ t.u = <<>> /\ t.v = <<>> /\ t.h = <<>> /\ t.indices = <<>>
    /\ t.westI = <<>> /\ t.southI = <<>> /\ t.eastI = <<>> /\ t.northI = <<>>
    /\ t.vLight = <<>> /\ t.watermask = <<>>

(***************************************************************************)
(* The entry points around _writeTo and fromBytesIO (terrain.py 464-558)   *)
(***************************************************************************)
\* toBytesIO(gzipped=False): the writer state at the end of _writeTo, out the
\* content of the buffer returned
toBytesIO(t) == writeTo(t)

\* the file a "with open(filePath, 'wb') as f" block leaves, w the writer
\* state at its end: what was written before an exception is in the file
Closed(w) ==
    [err |-> w.err, tile |-> w.tile, file |-> [exists |-> TRUE, data |-> w.out]]

\* toOurFile(filePath): open(filePath, 'wb') empties or creates the file
toOurFile(t, file) == Closed(writeTo(t))

\* a toFile without the os.path.isfile test
toFileUnchecked(t, file) == Closed(writeTo(t))

\* toFile(filePath): IOError when os.path.isfile(filePath)
toFile(t, file) ==
    IF file.exists THEN [err |-> "IOError", tile |-> t, file |-> file]
    ELSE toOurFile(t, file)

\* fromFile(filePath, hasLighting, hasWatermask): open() of a missing file
\* raises before the tile is touched
fromFile(t, file, hasLighting, hasWatermask) ==
    IF ~file.exists
    THEN [f |-> <<>>, err |-> "IOError", val |-> 0, vertexCount |-> 0, tile |-> t]
    ELSE fromBytesIO(t, file.data, hasLighting, hasWatermask)

(***************************************************************************)
(* Actions: one call of a public method each                               *)
(***************************************************************************)
Call(op, err) ==
    [err |-> err, hasWatermask |-> FALSE, hasLighting |-> FALSE, ret |-> "",
     op |-> op, path |-> "", fresh |-> FALSE, existed |-> FALSE,
     mutated |-> FALSE, boundsGiven |-> FALSE, moved |-> FALSE]

\* the state once the first tile is constructed
Init ==
    /\ \E args \in CtorArgs :
          \E c \in {TerrainTile(args.bounds, args.watermask, args.hasWatermaskGiven,
                                args.hasWatermask, args.topology)} :
              /\ c.err = OK
              /\ tile = c.tile
              /\ origin = IF args.topology.isNone THEN "new" ELSE "topology"
              /\ last = Call("TerrainTile", OK)
              /\ wrote = [tile |-> NewTile(DefaultBounds, NoMask, FALSE), origin |-> "new"]
    /\ buf = [data |-> <<>>, has |-> FALSE]
    /\ fs = [p \in Paths |-> [exists |-> FALSE, data |-> <<>>]]
    /\ steps = 0
    /\ shared = <<>>

\* tile = TerrainTile(**args): the caller's name now holds a new object
Construct(args) ==
    \E c \in {TerrainTile(args.bounds, args.watermask, args.hasWatermaskGiven,
                          args.hasWatermask, args.topology)} :
        /\ steps < MaxSteps
        /\ steps' = steps + 1
        /\ tile' = IF c.err = OK THEN c.tile ELSE tile
        /\ origin' = IF c.err # OK THEN origin
                     ELSE IF args.topology.isNone THEN "new" ELSE "topology"
        /\ last' = Call("TerrainTile", c.err)
        /\ UNCHANGED <<buf, fs, wrote, shared>>

\* tile.fromTerrainTopology(topology, bounds)
FromTerrainTopology(topology, bounds) ==
    \E c \in {fromTerrainTopology(tile, topology, bounds)} :
        /\ steps < MaxSteps
        /\ steps' = steps + 1
        /\ tile' = c.tile
        /\ origin' = IF c.tile = tile THEN origin
                     ELSE IF IsEmptyTile(tile) /\ c.err = OK THEN "topology"
                     ELSE "mixed"
        /\ last' = [Call("fromTerrainTopology", c.err) EXCEPT
                      !.fresh = IsEmptyTile(tile),
                      !.boundsGiven = bounds # NoBounds,
                      !.moved = Bounds(c.tile) # Bounds(tile)]
        /\ UNCHANGED <<buf, fs, wrote, shared>>

\* tile.fromBytesIO(io.BytesIO(data), hasLighting, hasWatermask), data the
\* content of the buffer toBytesIO returned, read from its start
FromBytesIO(hasLighting, hasWatermask) ==
    /\ steps < MaxSteps
    /\ buf.has
    /\ \E r \in {fromBytesIO(tile, buf.data, hasLighting, hasWatermask)} :
        /\ steps' = steps + 1
        /\ tile' = r.tile
        /\ origin' = IF IsEmptyTile(tile) /\ r.err = OK THEN "stream" ELSE "mixed"
        /\ last' = [Call("fromBytesIO", r.err) EXCEPT
                      !.fresh = IsEmptyTile(tile),
                      !.hasLighting = hasLighting, !.hasWatermask = hasWatermask]
        /\ UNCHANGED <<buf, fs, wrote, shared>>

\* tile.fromFile(path, hasLighting, hasWatermask)
FromFile(path, hasLighting, hasWatermask) ==
    /\ steps < MaxSteps
    /\ \E r \in {fromFile(tile, fs[path], hasLighting, hasWatermask)} :
        /\ steps' = steps + 1
        /\ tile' = r.tile
        /\ origin' = IF r.tile = tile THEN origin
                     ELSE IF IsEmptyTile(tile) /\ r.err = OK THEN "stream"
                     ELSE "mixed"
        /\ last' = [Call("fromFile", r.err) EXCEPT
                      !.path = path, !.fresh = IsEmptyTile(tile),
                      !.existed = fs[path].exists,
                      !.hasLighting = hasLighting, !.hasWatermask = hasWatermask]
        /\ UNCHANGED <<buf, fs, wrote, shared>>

\* buf = tile.toBytesIO(); nothing is returned when _writeTo raises
ToBytesIO ==
    /\ steps < MaxSteps
    /\ \E c \in {toBytesIO(tile)} :
        /\ steps' = steps + 1
        /\ tile' = c.tile
        /\ buf' = IF c.err = OK THEN [data |-> c.out, has |-> TRUE] ELSE buf
        /\ wrote' = IF c.err = OK THEN [tile |-> c.tile, origin |-> origin]
                    ELSE wrote
        /\ last' = [Call("toBytesIO", c.err) EXCEPT !.mutated = c.tile # tile]
        /\ UNCHANGED <<fs, origin, shared>>

\* tile.toFile(path)
ToFile(path) ==
    /\ steps < MaxSteps
    /\ \E c \in {toFile(tile, fs[path])} :
        /\ steps' = steps + 1
        /\ tile' = c.tile
        /\ fs' = [fs EXCEPT ![path] = c.file]
        /\ last' = [Call("toFile", c.err) EXCEPT
                      !.path = path, !.existed = fs[path].exists,
                      !.mutated = c.tile # tile]
        /\ UNCHANGED <<buf, wrote, origin, shared>>

\* tile.toOurFile(path)
ToOurFile(path) ==
    /\ steps < MaxSteps
    /\ \E c \in {toOurFile(tile, fs[path])} :
        /\ steps' = steps + 1
        /\ tile' = c.tile
        /\ fs' = [fs EXCEPT ![path] = c.file]
        /\ last' = [Call("toOurFile", c.err) EXCEPT
                      !.path = path, !.existed = fs[path].exists,
                      !.mutated = c.tile # tile]
        /\ UNCHANGED <<buf, wrote, origin, shared>>

\* tile.getContentType()
GetContentType ==
    /\ steps < MaxSteps
    /\ \E c \in {getContentType(tile)} :
        /\ steps' = steps + 1
        /\ last' = [Call("getContentType", c.err) EXCEPT !.ret = c.ret]
        /\ UNCHANGED <<tile, buf, fs, wrote, origin, shared>>

Next ==
    \/ \E args \in CtorArgs : Construct(args)
    \/ \E topology \in Topologies, bounds \in BoundsArgs :
          FromTerrainTopology(topology, bounds)
    \/ \E hasLighting \in BOOLEAN, hasWatermask \in BOOLEAN :
          FromBytesIO(hasLighting, hasWatermask)
    \/ \E path \in Paths, hasLighting \in BOOLEAN, hasWatermask \in BOOLEAN :
          FromFile(path, hasLighting, hasWatermask)
    \/ ToBytesIO
    \/ \E path \in Paths : ToFile(path)
    \/ \E path \in Paths : ToOurFile(path)
    \/ GetContentType

Spec == Init /\ [][Next]_vars

(***************************************************************************)
(* Properties                                                              *)
(***************************************************************************)
\* the methods that serialize the tile
WriteOps == {"toBytesIO", "toFile", "toOurFile"}

\* the extensions the stream in buf holds
WrittenLighting == wrote.tile.vLight # <<>>
WrittenWatermask == wrote.tile.watermask # <<>>

\* the last call read the stream in buf into an empty tile, with the flags of
\* the extensions the stream holds
FreshMatchingRead ==
    /\ last.op = "fromBytesIO"
    /\ last.fresh
    /\ last.hasLighting = WrittenLighting
    /\ last.hasWatermask = WrittenWatermask

\* C1: a tile populated by fromTerrainTopology, written by toBytesIO and read
\* by fromBytesIO into an empty tile with the matching flags, is read without
\* an exception and gives u, v, h, indices and the four edge lists equal to
\* the original ones, whatever the vertex count.
C1_RoundTrip ==
    (FreshMatchingRead /\ wrote.origin = "topology") =>
        /\ last.err = OK
        /\ tile.u = wrote.tile.u
        /\ tile.v = wrote.tile.v
        /\ tile.h = wrote.tile.h
        /\ tile.indices = wrote.tile.indices
        /\ tile.westI = wrote.tile.westI
        /\ tile.southI = wrote.tile.southI
        /\ tile.eastI = wrote.tile.eastI
        /\ tile.northI = wrote.tile.northI

\* C2: for the vertex count of a written stream, the reader takes the tables
\* the writer took, for the triangle indices and for the four edge blocks, and
\* the edge indices have the width of the triangle indices.
C2_SameWidth ==
    buf.has =>
        /\ ReadIndexMeta(RLen(wrote.tile.u)) = WriteIndexMeta(RLen(wrote.tile.u))
        /\ ReadEdgeMeta(RLen(wrote.tile.u)) = WriteEdgeMeta(RLen(wrote.tile.u))
        /\ \A k \in {"westIndices", "southIndices", "eastIndices", "northIndices"} :
              WriteEdgeMeta(RLen(wrote.tile.u))[k]
                = WriteIndexMeta(RLen(wrote.tile.u))["indices"]

\* C3: once fromBytesIO has returned, on whatever tile, u, v and h have the
\* stream's vertexCount entries, indices the stream's indices, and the edge
\* lists, the normals and the watermask only the entries of the stream.
C3_OnlyTheStream ==
    (last.op = "fromBytesIO" /\ last.err = OK) =>
        /\ RLen(tile.u) = RLen(wrote.tile.u)
        /\ RLen(tile.v) = RLen(wrote.tile.u)
        /\ RLen(tile.h) = RLen(wrote.tile.u)
        /\ Len(tile.indices) = Len(wrote.tile.indices)
        /\ tile.westI = wrote.tile.westI
        /\ tile.southI = wrote.tile.southI
        /\ tile.eastI = wrote.tile.eastI
        /\ tile.northI = wrote.tile.northI
        /\ (last.hasLighting = WrittenLighting /\ last.hasWatermask = WrittenWatermask)
             => /\ RLen(tile.vLight) = IF WrittenLighting THEN RLen(wrote.tile.u) ELSE 0
                /\ RLen(tile.watermask) = RLen(wrote.tile.watermask)

\* C4: fromBytesIO called with hasLighting on a stream whose only extension
\* is the watermask (id 2 where id 1 is expected), or with hasWatermask alone
\* on a stream whose only extension is the normals (id 1 where id 2 is
\* expected), ends with an exception.
C4_IdMismatchFails ==
    /\ (last.op = "fromBytesIO" /\ last.hasLighting
          /\ ~WrittenLighting /\ WrittenWatermask) => last.err # OK
    /\ (last.op = "fromBytesIO" /\ last.hasWatermask /\ ~last.hasLighting
          /\ WrittenLighting /\ ~WrittenWatermask) => last.err # OK

\* the documented content type of a pair of flags
DocumentedContentType(lighting, watermask) ==
    IF lighting /\ watermask
    THEN "application/vnd.quantized-mesh;extensions=octvertexnormals-watermask"
    ELSE IF lighting THEN "application/vnd.quantized-mesh;extensions=octvertexnormals"
    ELSE IF watermask THEN "application/vnd.quantized-mesh;extensions=watermask"
    ELSE "application/vnd.quantized-mesh"

\* C5: getContentType, on a tile in any state, raises nothing and returns the
\* documented string of the tile's pair (hasLighting, hasWatermask).
C5_ContentType ==
    last.op = "getContentType" =>
        /\ last.err = OK
        /\ last.ret = DocumentedContentType(tile.hasLighting, tile.hasWatermask)

\* the watermasks the documentation gives: the one-byte list and the grid
DocumentedWatermasks == {FlatWater, GridMask}

\* C6: a tile built from a topology with a documented watermask (the list
\* [255], or a grid of 256 rows of 256 bytes) is written without an exception,
\* and reading the stream into an empty tile with hasWatermask gives the same
\* watermask back.
C6_WatermaskRoundTrip ==
    /\ (last.op = "toBytesIO" /\ origin = "topology"
          /\ tile.watermask \in DocumentedWatermasks) => last.err = OK
    /\ (FreshMatchingRead /\ wrote.origin = "topology"
          /\ wrote.tile.watermask \in DocumentedWatermasks)
         => (last.err = OK /\ tile.watermask = wrote.tile.watermask)

\* a watermask of one element: a bare byte, or a row of one byte
IsUniformWatermask(m) ==
    /\ RLen(m) = 1
    /\ (m[1].v.isRow => RLen(m[1].v.row) = 1)

\* a watermask of 256 rows of 256 bytes
IsGridWatermask(m) ==
    /\ RLen(m) = 256
    /\ \A i \in 1..Len(m) : m[i].v.isRow /\ RLen(m[i].v.row) = 256

\* C7: writing a tile whose watermask is not empty, not uniform and not a
\* grid of 256 by 256 ends with an exception.
C7_InvalidWatermaskFails ==
    (/\ last.op \in {"toBytesIO", "toOurFile"}
     /\ tile.watermask # <<>>
     /\ ~IsUniformWatermask(tile.watermask)
     /\ ~IsGridWatermask(tile.watermask)) => last.err # OK

\* the tile with its two flags and its watermask taken out
Framed(t) ==
    [t EXCEPT !.hasLighting = FALSE, !.hasLightingSet = FALSE,
              !.hasWatermask = FALSE, !.watermask = <<>>]

\* C8 as stated: a call of toBytesIO, toFile or toOurFile leaves every field
\* of the tile as it was.
C8_ReadOnly == [][last'.op \in WriteOps => tile' = tile]_vars

\* C8, amended: a call of toBytesIO, toFile or toOurFile leaves every field
\* as it was but the two flags and the watermask; hasLighting changes only to
\* True and only when there are normals, hasWatermask changes only to True
\* and only when there is a watermask, and the watermask changes only from a
\* uniform None to a uniform 0.
C8_WritesOnlyFlags ==
    [][last'.op \in WriteOps =>
        /\ Framed(tile') = Framed(tile)
        /\ (tile'.hasLighting # tile.hasLighting
               \/ tile'.hasLightingSet # tile.hasLightingSet)
             => (tile.vLight # <<>> /\ tile'.hasLighting /\ tile'.hasLightingSet)
        /\ tile'.hasWatermask # tile.hasWatermask
             => (tile.watermask # <<>> /\ tile'.hasWatermask)
        /\ tile'.watermask # tile.watermask
             => (tile.watermask = UniformNone /\ tile'.watermask = RRep(Row(RRep(0, 1)), 1))
    ]_vars

\* a write has changed the tile
C8_Witness == last.op \in WriteOps /\ last.mutated

\* C9: a call of toFile or toOurFile that ends with an exception leaves the
\* files as they were.
C9_AllOrNothing ==
    [][(last'.op \in {"toFile", "toOurFile"} /\ last'.err # OK) => fs' = fs]_vars

\* C10: toFile on a path that is a file raises IOError and leaves the files
\* as they were, and a file that exists changes only in a call of toOurFile.
C10_NoOverwrite ==
    [][/\ (last'.op = "toFile" /\ fs[last'.path].exists)
            => (last'.err = "IOError" /\ fs' = fs)
       /\ \A p \in Paths :
            (fs[p].exists /\ fs'[p] # fs[p]) => last'.op = "toOurFile"
    ]_vars

\* toFile has been called on a path that was a file, and a file holds a tile
C10_Witness ==
    /\ last.op = "toFile"
    /\ last.existed
    /\ last.err = "IOError"
    /\ fs[last.path].data # <<>>

\* C11 as stated: no public operation on a constructed tile changes the value
\* of its bounds property; only the construction of a new tile gives the
\* caller other bounds.
C11_BoundsImmutable ==
    [][last'.op # "TerrainTile" => Bounds(tile') = Bounds(tile)]_vars

\* C11, amended: the bounds change only in fromTerrainTopology.  Given a
\* bounds argument and a TerrainTopology, the bounds become that argument;
\* given none, bounds that differ from the default (-1, -1, 1, 1) stay and
\* default bounds become the extent of the topology.  fromBytesIO, fromFile,
\* getContentType and the writes leave the bounds as they were.
C11_BoundsOnlyFromTopology ==
    [][/\ Bounds(tile') # Bounds(tile)
            => last'.op \in {"TerrainTile", "fromTerrainTopology"}
       /\ (last'.op = "fromTerrainTopology" /\ ~last'.boundsGiven
              /\ BoundsDefined(tile)) => Bounds(tile') = Bounds(tile)
       /\ (last'.op = "fromTerrainTopology" /\ last'.boundsGiven
              /\ last'.err # "Exception: topology")
            => Bounds(tile') \in BoundsArgs
       /\ (last'.op = "fromTerrainTopology" /\ last'.err = "Exception: topology")
            => Bounds(tile') = Bounds(tile)
    ]_vars

\* fromTerrainTopology with a bounds argument has changed the bounds of a
\* tile that had data
C11_Witness ==
    /\ last.op = "fromTerrainTopology"
    /\ last.boundsGiven
    /\ last.moved
    /\ ~last.fresh

\* the positions of indices that hold, for the first time, a vertex whose
\* quantized coordinate in l is bound
FirstOn(indices, l, bound) ==
    {i \in 1..Len(indices) :
        /\ RAt(l, indices[i]) = bound
        /\ \A j \in 1..(i - 1) : indices[j] # indices[i]}

\* the vertices at the positions P of indices, in the order of indices
Listed(indices, P) ==
    [k \in 1..Cardinality(P) |->
        indices[CHOOSE i \in P : Cardinality({j \in P : j <= i}) = k]]

\* the last call was a fromTerrainTopology on an empty tile, the constructor's
\* or a later one, and it returned
PopulatedFromEmpty ==
    /\ last.err = OK
    /\ origin = "topology"
    /\ \/ last.op = "TerrainTile"
       \/ last.op = "fromTerrainTopology" /\ last.fresh

\* C13: after fromTerrainTopology on an empty tile, westI and eastI list the
\* vertices of indices whose quantized u is 0 and 32767, southI and northI
\* those whose quantized v is 0 and 32767, each vertex once and in the order
\* of its first occurrence in indices; no vertex is in both westI and eastI
\* or in both southI and northI.
C13_EdgeLists ==
    PopulatedFromEmpty =>
        /\ tile.westI = Listed(tile.indices, FirstOn(tile.indices, tile.u, MIN))
        /\ tile.eastI = Listed(tile.indices, FirstOn(tile.indices, tile.u, MAX))
        /\ tile.southI = Listed(tile.indices, FirstOn(tile.indices, tile.v, MIN))
        /\ tile.northI = Listed(tile.indices, FirstOn(tile.indices, tile.v, MAX))
        /\ \A i \in 1..Len(tile.indices) :
              /\ ~(InSeq(tile.indices[i], tile.westI) /\ InSeq(tile.indices[i], tile.eastI))
              /\ ~(InSeq(tile.indices[i], tile.southI) /\ InSeq(tile.indices[i], tile.northI))

\* a later fromTerrainTopology has populated an empty tile whose indices hold
\* an east-edge vertex twice and a corner
C13_Witness ==
    /\ PopulatedFromEmpty
    /\ last.op = "fromTerrainTopology"
    /\ \E i \in 1..Len(tile.indices) : \E j \in 1..(i - 1) :
          tile.indices[i] = tile.indices[j] /\ InSeq(tile.indices[i], tile.eastI)
    /\ \E i \in 1..Len(tile.indices) :
          InSeq(tile.indices[i], tile.westI) /\ InSeq(tile.indices[i], tile.southI)

\* the heights of a topology quantized over the height range of the header:
\* 0 for each of them when the range is empty
QuantizedHeights(t, topology) ==
    IF t.header["maximumHeight"] = t.header["minimumHeight"]
    THEN RRep(0, RLen(topology.hVertex))
    ELSE QuantizeList(topology.hVertex, t.header["minimumHeight"],
                      t.header["maximumHeight"] - t.header["minimumHeight"])

\* every value of the list l lies in [MIN, MAX]
InRange(l) == \A i \in 1..Len(l) : MIN <= l[i].v /\ l[i].v <= MAX

\* C14: after a fromTerrainTopology that returned, the constructor's or a
\* later one, u, v and h are the vertices of the topology of that call
\* quantized over the bounds and the height range the tile now has, they lie
\* in [0, 32767] and they have one length.
C14_Quantized ==
    (/\ last.err = OK
     /\ \/ last.op = "fromTerrainTopology"
        \/ last.op = "TerrainTile" /\ origin = "topology") =>
        /\ InRange(tile.u) /\ InRange(tile.v) /\ InRange(tile.h)
        /\ RLen(tile.u) = RLen(tile.v) /\ RLen(tile.v) = RLen(tile.h)
        /\ \E topology \in {SquareTopology, LitTopology, LargeTopology} :
              /\ tile.indices = topology.indexData
              /\ tile.header["maximumHeight"] = topology.maxHeight
              /\ tile.u = QuantizeList(topology.uVertex, tile.west,
                                       tile.east - tile.west)
              /\ tile.v = QuantizeList(topology.vVertex, tile.south,
                                       tile.north - tile.south)
              /\ tile.h = QuantizedHeights(tile, topology)

\* C15: once a constructor, a fromTerrainTopology, a fromBytesIO or a write
\* has returned, hasLighting is true exactly when the tile holds normals,
\* and a tile that holds normals holds one for each vertex.
C15_LightingAgrees ==
    (/\ last.err = OK
     /\ last.op \in {"TerrainTile", "fromTerrainTopology", "fromBytesIO"} \cup WriteOps) =>
        /\ tile.hasLighting <=> tile.vLight # <<>>
        /\ tile.vLight # <<>> => RLen(tile.vLight) = RLen(tile.u)

(***************************************************************************)
(* The word width of the index and edge blocks (terrain.py 172, 646-673):  *)
(* _writeTo applied to tiles whose vertex count is around the 16-bit limit  *)
(***************************************************************************)
\* the tiles written: vertexCount vertices at one place, one triangle, and
\* the vertices 0 and indice on one edge.  The vertex counts are the first
\* count past the 16-bit range, the last count the writer packs in 16 bits,
\* and their neighbours; the edge vertex is the third, the last of the
\* 16-bit range, the one after it, or the last of the tile
WidthTiles ==
    {[[NewTile(DefaultBounds, NoMask, FALSE) EXCEPT
         !.u = RRep(0, vertexCount), !.v = RRep(0, vertexCount),
         !.h = RRep(0, vertexCount), !.indices = <<0, 1, 2>>]
      EXCEPT ![edge] = <<0, indice>>] :
        vertexCount \in {BYTESPLIT - 101, BYTESPLIT - 100, BYTESPLIT - 99,
                         BYTESPLIT - 1, BYTESPLIT, BYTESPLIT + 1},
        edge \in {"westI", "southI", "eastI", "northI"},
        indice \in {2, BYTESPLIT - 101, BYTESPLIT - 100, BYTESPLIT - 1}}

\* every index of the triangles and of the edge lists is below vertexCount
IndicesBelow(t) ==
    \A l \in {t.indices, t.westI, t.southI, t.eastI, t.northI} :
        \A i \in 1..Len(l) : l[i] < RLen(t.u)

InitWidth ==
    /\ tile \in {t \in WidthTiles : IndicesBelow(t)}
    /\ origin = "new"
    /\ last = Call("TerrainTile", OK)
    /\ wrote = [tile |-> NewTile(DefaultBounds, NoMask, FALSE), origin |-> "new"]
    /\ buf = [data |-> <<>>, has |-> FALSE]
    /\ fs = [p \in Paths |-> [exists |-> FALSE, data |-> <<>>]]
    /\ steps = 0
    /\ shared = <<>>

SpecWidth == InitWidth /\ [][ToBytesIO]_vars

\* C16: when a tile whose indices are all below its vertex count has been
\* written with the 16-bit tables selected (vertexCount <= BYTESPLIT), every
\* high-water-mark code and every edge index is at most 65535 and the
\* packing has refused none of them.
C16_FitsWidth ==
    (/\ last.op = "toBytesIO"
     /\ RLen(tile.u) <= BYTESPLIT
     /\ IndicesBelow(tile)) =>
        /\ \A i \in 1..Len(tile.indices) :
              FitsFormat(indexData16["indices"], encodeIndices(tile.indices)[i])
        /\ \A l \in {tile.westI, tile.southI, tile.eastI, tile.northI} :
              \A i \in 1..Len(l) : FitsFormat(EdgeIndices16["westIndices"], l[i])
        /\ last.err # "struct.error"

(***************************************************************************)
(* Two tiles of one caller (terrain.py 193-212, 380-399, 717-718, 809-832). *)
(* A list attribute is a reference: self.watermask is the list the caller   *)
(* passed, self.vLight is topology.verticesUnitVectors once                 *)
(* fromTerrainTopology has read a topology with lighting, and append and   *)
(* item assignment change the list for every holder.  self.indices is      *)
(* topology.indexData as well, a list no method changes in place.          *)
(* shared is [tiles, vLightOf, watermaskOf, topology, watermask, on]: each  *)
(* tile with the lists it sees, the list each vLight and watermask refers  *)
(* to, the topology object and the watermask list of the caller, and the   *)
(* tile of the last call.                                                   *)
(***************************************************************************)
TileNames == {"A", "B"}

\* the tiles as their holders see them: the lists a tile refers to, read
\* through the reference
Seen(tiles, vLightOf, watermaskOf, topology, watermask) ==
    [X \in TileNames |->
        [tiles[X] EXCEPT
           !.vLight = IF vLightOf[X] = "topology"
                      THEN topology.verticesUnitVectors ELSE @,
           !.watermask = IF watermaskOf[X] = "caller" THEN watermask ELSE @]]

\* the heap after a call on tile X that left X as t: rebind says the call
\* assigned topology.verticesUnitVectors to X.vLight; what the call did to
\* the lists of X is done to the lists X refers to
Rebound(sh, X, t, rebind) ==
    \E vLightOf \in {[sh.vLightOf EXCEPT ![X] = IF rebind THEN "topology" ELSE @]} :
    \E topology \in {IF vLightOf[X] = "topology"
                      THEN [sh.topology EXCEPT !.verticesUnitVectors = t.vLight]
                      ELSE sh.topology} :
    \E watermask \in {IF sh.watermaskOf[X] = "caller" THEN t.watermask
                       ELSE sh.watermask} :
        shared' = [watermask |-> watermask, topology |-> topology,
                   tiles |-> Seen([sh.tiles EXCEPT ![X] = t], vLightOf,
                                  sh.watermaskOf, topology, watermask),
                   vLightOf |-> vLightOf, watermaskOf |-> sh.watermaskOf,
                   on |-> X]

\* A = TerrainTile(watermask=watermask, topology=topology) and
\* B = TerrainTile(watermask=watermask, topology=topology); NoMask: no
\* watermask is given and each tile takes the new list of
\* kwargs.get('watermask', [])
InitShared ==
    /\ \E topology \in {SquareTopology, LitTopology},
          watermask \in {NoMask, UniformNone, UniformWater} :
          \E c \in {TerrainTile(DefaultBounds, watermask, FALSE, FALSE, topology)} :
              shared = [watermask |-> watermask, topology |-> topology,
                        tiles |-> [X \in TileNames |-> c.tile],
                        vLightOf |-> [X \in TileNames |->
                                        IF topology.hasLighting THEN "topology"
                                        ELSE "own"],
                        watermaskOf |-> [X \in TileNames |->
                                           IF watermask = NoMask THEN "own"
                                           ELSE "caller"],
                        on |-> "B"]
    /\ tile = NewTile(DefaultBounds, NoMask, FALSE)
    /\ origin = "new"
    /\ last = Call("TerrainTile", OK)
    /\ wrote = [tile |-> NewTile(DefaultBounds, NoMask, FALSE), origin |-> "new"]
    /\ buf = [data |-> <<>>, has |-> FALSE]
    /\ fs = [p \in Paths |-> [exists |-> FALSE, data |-> <<>>]]
    /\ steps = 0

\* buf = X.toBytesIO()
SharedToBytesIO(X) ==
    /\ steps < MaxSteps
    /\ \E c \in {toBytesIO(shared.tiles[X])} :
        /\ steps' = steps + 1
        /\ Rebound(shared, X, c.tile, FALSE)
        /\ buf' = IF c.err = OK THEN [data |-> c.out, has |-> TRUE] ELSE buf
        /\ last' = Call("toBytesIO", c.err)
        /\ UNCHANGED <<tile, fs, wrote, origin>>

\* X.fromBytesIO(io.BytesIO(data), hasLighting, hasWatermask), data the
\* content of the buffer the last toBytesIO returned
SharedFromBytesIO(X, hasLighting, hasWatermask) ==
    /\ steps < MaxSteps
    /\ buf.has
    /\ \E r \in {fromBytesIO(shared.tiles[X], buf.data, hasLighting, hasWatermask)} :
        /\ steps' = steps + 1
        /\ Rebound(shared, X, r.tile, FALSE)
        /\ last' = [Call("fromBytesIO", r.err) EXCEPT
                      !.hasLighting = hasLighting, !.hasWatermask = hasWatermask]
        /\ UNCHANGED <<tile, buf, fs, wrote, origin>>

\* X.fromTerrainTopology(topology), topology the object both tiles were
\* built from, as it is now
SharedFromTerrainTopology(X) ==
    /\ steps < MaxSteps
    /\ \E c \in {fromTerrainTopology(shared.tiles[X], shared.topology, NoBounds)} :
        /\ steps' = steps + 1
        /\ Rebound(shared, X, c.tile, c.err = OK /\ shared.topology.hasLighting)
        /\ last' = Call("fromTerrainTopology", c.err)
        /\ UNCHANGED <<tile, buf, fs, wrote, origin>>

SpecShared ==
    InitShared /\ [][
    \/ \E X \in TileNames : SharedToBytesIO(X)
    \/ \E X \in TileNames, hasLighting \in BOOLEAN, hasWatermask \in BOOLEAN :
          SharedFromBytesIO(X, hasLighting, hasWatermask)
    \/ \E X \in TileNames : SharedFromTerrainTopology(X)
    ]_vars

\* C12: a call on one tile changes no field of the other tile and nothing
\* of the topology object the tiles were built from.
C12_Independent ==
    [][/\ \A X \in TileNames \ {shared'.on} : shared'.tiles[X] = shared.tiles[X]
       /\ shared'.topology = shared.topology]_vars
====
